---- MODULE Spec2Model ----
(***************************************************************************)
(* Model of the arxiv-review pipeline.                                     *)
(*                                                                         *)
(*   fetch_arxiv.py    : per-category feed retrieval and parsing, merge,   *)
(*                       de-duplication by id, descending sort by id,      *)
(*                       optional titles-only projection, RecordSet output *)
(*   prepare_prompt.py : reads the RecordSet back, optionally filters the  *)
(*                       records by an identifier document, and renders a  *)
(*                       prompt by literal placeholder replacement         *)
(*                                                                         *)
(* A Python str is modelled as a sequence of text pieces (a tuple of       *)
(* strings).  The characters the code inspects one by one (digits, ".",    *)
(* "/", "<", ">", "{", "}", ")", white space) are always pieces of their   *)
(* own; a longer piece such as "arxiv" or "Title" stands for a run of      *)
(* characters the code never looks into.                                   *)
(***************************************************************************)
EXTENDS Integers, Sequences, FiniteSets, TLC

VARIABLES
    categories,   \* args.categories of fetch_arxiv.main
    titles_only,  \* args.titles_only
    feeds,        \* what the network returned for each category fetched so far
    idx,          \* position of the for-loop over args.categories
    all_papers,   \* main's all_papers
    seen_ids,     \* main's seen_ids
    warnings,     \* categories for which fetch_category printed a warning
    output,       \* the RecordSet written by fetch_arxiv / read by prepare_prompt
    pc,           \* "fetching", "written", "rendered", "failed", "aborted";
                  \* "parsing", "parsed" for a direct parse_rss call
    mode,         \* args.mode of prepare_prompt.main
    filter_data,  \* the loaded --filter-ids document
    template,     \* prompts/<mode>.md
    interests,    \* research_interests.md
    papers,       \* prepare_abstract_review's papers after the filter
    prompt,       \* the printed prompt
    error,        \* the exception that ended prepare_prompt, or "none"
    xml_content,  \* argument of a direct parse_rss call
    parse_out     \* its outcome

fetchVars == <<categories, titles_only, feeds, idx, all_papers, seen_ids, warnings>>
promptVars == <<mode, filter_data, template, interests, papers, prompt, error>>
parseVars == <<xml_content, parse_out>>
vars == <<categories, titles_only, feeds, idx, all_papers, seen_ids, warnings,
          output, pc, mode, filter_data, template, interests, papers, prompt,
          error, xml_content, parse_out>>

---------------------------------------------------------------------------
(* Bounds of the model                                                     *)

MaxItems == 2
MaxCats == 2
MaxTemplate == 3
MaxFilterIds == 2

---------------------------------------------------------------------------
(* Python strings                                                          *)

DigitSeq == <<"0", "1", "2", "3", "4", "5", "6", "7", "8", "9">>

IsDigit(c) == \E k \in 1..Len(DigitSeq) : DigitSeq[k] = c

IsSpace(c) == c \in {" ", "\n", "\t"}

\* the pieces that are one character (other than a line break)
IsChar(c) ==
    \/ IsDigit(c)
    \/ c \in {".", "/", "-", ":", " ", "\t", "<", ">", "&", "{", "}", "(", ")"}

\* Code point of a character of an identifier: "." is 46, "0".."9" are 48..57.
Ord(c) ==
    IF c = "." THEN 46
    ELSE 47 + (CHOOSE k \in 1..Len(DigitSeq) : DigitSeq[k] = c)

\* a < b for Python strings: the first differing character decides, a proper
\* prefix is smaller.
StrLess(a, b) ==
    \E k \in 1..Len(b) :
        /\ \A j \in 1..(k - 1) : j <= Len(a) /\ a[j] = b[j]
        /\ \/ k = Len(a) + 1
           \/ k <= Len(a) /\ Ord(a[k]) < Ord(b[k])

Drop(s, n) == SubSeq(s, n + 1, Len(s))

\* tok occurs in s starting at position i
OccursAt(s, tok, i) ==
    /\ i >= 1
    /\ i + Len(tok) - 1 <= Len(s)
    /\ \A k \in 1..Len(tok) : s[i + k - 1] = tok[k]

Contains(s, tok) == \E i \in 1..Len(s) : OccursAt(s, tok, i)

\* str.replace(old, new) for a non-empty old, from position i of s on: the
\* text up to the leftmost occurrence is copied, the occurrence gives new,
\* and the search goes on behind the occurrence (occurrences do not overlap
\* and the inserted text is not scanned again).
RECURSIVE ReplaceFrom(_, _, _, _)
ReplaceFrom(s, i, old, new) ==
    LET found == {j \in i..Len(s) : OccursAt(s, old, j)}
    IN IF found = {} THEN SubSeq(s, i, Len(s))
       ELSE LET j == CHOOSE x \in found : \A y \in found : x <= y
            IN SubSeq(s, i, j - 1) \o new \o ReplaceFrom(s, j + Len(old), old, new)

Replace(s, old, new) == ReplaceFrom(s, 1, old, new)

---------------------------------------------------------------------------
(* fetch_arxiv.clean_text                                                  *)

UnescapeChar(c) ==
    CASE c = "&amp;" -> "&"
      [] c = "&lt;" -> "<"
      [] c = "&gt;" -> ">"
      [] OTHER -> c

Unescape(s) == [k \in 1..Len(s) |-> UnescapeChar(s[k])]

\* end of the match of <[^>]+> that starts at s[1] = "<", or 0
TagEnd(s) ==
    IF Len(s) >= 3 /\ s[1] = "<" /\ s[2] # ">" /\ \E j \in 3..Len(s) : s[j] = ">"
    THEN CHOOSE j \in 3..Len(s) : s[j] = ">" /\ \A k \in 2..(j - 1) : s[k] # ">"
    ELSE 0

\* re.sub(r"<[^>]+>", "", text)
RECURSIVE StripTags(_)
StripTags(s) ==
    IF s = <<>> THEN <<>>
    ELSE IF TagEnd(s) > 0 THEN StripTags(Drop(s, TagEnd(s)))
         ELSE <<Head(s)>> \o StripTags(Tail(s))

\* re.sub(r"\s+", " ", text)
RECURSIVE CollapseSpace(_)
CollapseSpace(s) ==
    IF s = <<>> THEN <<>>
    ELSE IF IsSpace(Head(s))
         THEN IF Len(s) >= 2 /\ IsSpace(s[2])
              THEN CollapseSpace(Tail(s))
              ELSE <<" ">> \o CollapseSpace(Tail(s))
         ELSE <<Head(s)>> \o CollapseSpace(Tail(s))

\* str.strip()
RECURSIVE Strip(_)
Strip(s) ==
    IF s = <<>> THEN <<>>
    ELSE IF IsSpace(Head(s)) THEN Strip(Tail(s))
    ELSE IF IsSpace(s[Len(s)]) THEN Strip(SubSeq(s, 1, Len(s) - 1))
    ELSE s

clean_text(text) ==
    IF text = <<>> THEN <<>>
    ELSE Strip(CollapseSpace(StripTags(Unescape(text))))

\* re.sub(r"\s*\(arXiv:[^)]+\)\s*$", "", title): the places where "(arXiv:"
\* is followed by one or more characters other than ")", a ")" and the end
AnnotationStarts(s) ==
    { q \in 1..Len(s) :
        /\ s[q] = "(arXiv:"
        /\ \E e \in (q + 2)..Len(s) :
              /\ s[e] = ")"
              /\ \A k \in (q + 1)..(e - 1) : s[k] # ")"
              /\ \A k \in (e + 1)..Len(s) : IsSpace(s[k]) }

RECURSIVE SpaceBefore(_, _)
SpaceBefore(s, q) ==
    IF q > 1 /\ IsSpace(s[q - 1]) THEN SpaceBefore(s, q - 1) ELSE q

StripAnnotation(s) ==
    IF AnnotationStarts(s) = {} THEN s
    ELSE LET q == CHOOSE x \in AnnotationStarts(s) :
                      \A y \in AnnotationStarts(s) : x <= y
         IN SubSeq(s, 1, SpaceBefore(s, q) - 1)

---------------------------------------------------------------------------
(* fetch_arxiv.extract_arxiv_id                                            *)

\* length of the run of digits of s that starts at position i
RECURSIVE DigitRun(_, _)
DigitRun(s, i) ==
    IF i <= Len(s) /\ IsDigit(s[i]) THEN 1 + DigitRun(s, i + 1) ELSE 0

\* arxiv.org/(?:abs|pdf)/ matches s from position i on ("." is any character)
PrefixAt(s, i) ==
    /\ i + 6 <= Len(s)
    /\ s[i] = "arxiv"
    /\ IsChar(s[i + 1])
    /\ s[i + 2] = "org"
    /\ s[i + 3] = "/"
    /\ s[i + 4] \in {"abs", "pdf"}
    /\ s[i + 5] = "/"

\* the whole pattern matches s from position i on
MatchAt(s, i) ==
    /\ PrefixAt(s, i)
    /\ LET d1 == DigitRun(s, i + 6)
       IN /\ d1 >= 1
          /\ i + 6 + d1 <= Len(s)
          /\ s[i + 6 + d1] = "."
          /\ DigitRun(s, i + 7 + d1) >= 1

\* re.search: the leftmost position from i on where the pattern matches, or 0
RECURSIVE SearchFrom(_, _)
SearchFrom(s, i) ==
    IF i > Len(s) THEN 0
    ELSE IF MatchAt(s, i) THEN i
    ELSE SearchFrom(s, i + 1)

extract_arxiv_id(link) ==
    LET i == SearchFrom(link, 1)
    IN IF i = 0 THEN <<>>
       ELSE LET d1 == DigitRun(link, i + 6)
                d2 == DigitRun(link, i + 7 + d1)
            IN SubSeq(link, i + 6, i + 6 + d1 + d2)

---------------------------------------------------------------------------
(* fetch_arxiv.parse_rss                                                   *)

\* An element found by item.find(): present or None; text = <<>> stands for
\* a text of None or "".
NoElem == [present |-> FALSE, text |-> <<>>]

Elem(t) == [present |-> TRUE, text |-> t]

\* the two "continue" statements of the loop body
ItemSkipped(item) ==
    \/ ~item.title.present
    \/ ~item.link.present
    \/ extract_arxiv_id(item.link.text) = <<>>

\* the dict appended for an item that is not skipped
ItemRecord(item, category) ==
    LET arxiv_id == extract_arxiv_id(item.link.text)
    IN [id |-> arxiv_id,
        title |-> StripAnnotation(clean_text(item.title.text)),
        abstract |-> IF item.description.present
                     THEN clean_text(item.description.text) ELSE <<>>,
        authors |-> IF item.creator.present /\ item.creator.text # <<>>
                    THEN clean_text(item.creator.text) ELSE <<>>,
        category |-> category,
        url |-> <<"https://arxiv.org/abs/">> \o arxiv_id,
        pdf |-> <<"https://arxiv.org/pdf/">> \o arxiv_id \o <<".pdf">>]

\* (variant: the loop ends at the first item it cannot use)
RECURSIVE ParseItemsBreak(_, _)
ParseItemsBreak(items, category) ==
    IF items = <<>> THEN <<>>
    ELSE IF ItemSkipped(Head(items)) THEN <<>>
    ELSE <<ItemRecord(Head(items), category)>>
             \o ParseItemsBreak(Tail(items), category)

\* the for-loop over root.findall(".//item")
RECURSIVE ParseItems(_, _)
ParseItems(items, category) ==
    IF items = <<>> THEN <<>>
    ELSE (IF ItemSkipped(Head(items)) THEN <<>>
          ELSE <<ItemRecord(Head(items), category)>>)
         \o ParseItems(Tail(items), category)

\* ET.fromstring raises ParseError on a payload that is not well-formed
parse_rss(xml, category) ==
    IF ~xml.wellformed THEN [raised |-> TRUE, papers |-> <<>>]
    ELSE [raised |-> FALSE, papers |-> ParseItems(xml.items, category)]

---------------------------------------------------------------------------
(* fetch_arxiv.fetch_rss, fetch_category                                   *)

\* what the network holds for a category: urlopen raises, or returns a text
NetError == [net |-> "error", wellformed |-> FALSE, items |-> <<>>]

Malformed == [net |-> "ok", wellformed |-> FALSE, items |-> <<>>]

Feed(items) == [net |-> "ok", wellformed |-> TRUE, items |-> items]

\* a category that has not been asked for yet
Unfetched == [net |-> "unfetched", wellformed |-> FALSE, items |-> <<>>]

fetch_rss(payload) ==
    IF payload.net = "error" THEN [raised |-> TRUE, xml |-> Malformed]
    ELSE [raised |-> FALSE, xml |-> payload]

\* (variant: without the try/except)
fetch_category_uncaught(payload, category) ==
    LET got == fetch_rss(payload)
        parsed == parse_rss(got.xml, category)
    IN [raised |-> got.raised \/ parsed.raised, papers |-> parsed.papers,
        warned |-> FALSE]

\* try: fetch + parse; except Exception: warn and return []
fetch_category(payload, category) ==
    LET got == fetch_rss(payload)
        parsed == parse_rss(got.xml, category)
    IN IF got.raised \/ parsed.raised
       THEN [raised |-> FALSE, papers |-> <<>>, warned |-> TRUE]
       ELSE [raised |-> FALSE, papers |-> parsed.papers, warned |-> FALSE]

---------------------------------------------------------------------------
(* Inputs                                                                  *)

CatNames == {<<"quant-ph">>, <<"cond-mat">>}

SeqsUpTo(S, n) == UNION {[1..k -> S] : k \in 0..n}

CatSeqs == SeqsUpTo(CatNames, MaxCats) \ {<<>>}

\* identifiers whose string order differs from their numeric order
IdA == <<"9", ".", "1">>
IdB == <<"1", "0", ".", "1">>
IdC == <<"2", ".", "1", "0">>

AbsLink(id) == <<"https://", "arxiv", ".", "org", "/", "abs", "/">> \o id

PdfLink(id) ==
    <<"http://", "export", ".", "arxiv", ".", "org", "/", "pdf", "/">> \o id \o <<"v", "1">>

Item(title, link, description, creator) ==
    [title |-> title, link |-> link, description |-> description,
     creator |-> creator]

\* the items of the feeds of a pipeline run
FeedItems ==
    {Item(Elem(<<"A">>), Elem(AbsLink(IdA)), NoElem, NoElem),
     Item(Elem(<<"B">>), Elem(AbsLink(IdB)), NoElem, NoElem),
     Item(Elem(<<"C">>), Elem(PdfLink(IdC)), NoElem, NoElem)}

FeedPayloads ==
    {NetError, Malformed} \cup {Feed(x) : x \in SeqsUpTo(FeedItems, MaxItems)}

\* fetch_category tabulated over the payloads and categories of the model
FetchTable ==
    [payload \in FeedPayloads |->
        [category \in CatNames |-> fetch_category(payload, category)]]

Fetched(payload, category) ==
    IF payload \in DOMAIN FetchTable THEN FetchTable[payload][category]
    ELSE fetch_category(payload, category)

---------------------------------------------------------------------------
(* fetch_arxiv.main                                                        *)

\* (variant: a later record with a seen id takes the place of the earlier)
RECURSIVE MergePapersLastWins(_, _)
MergePapersLastWins(acc, ps) ==
    IF ps = <<>> THEN acc
    ELSE LET p == Head(ps)
         IN MergePapersLastWins(
                IF p.id \notin acc.seen
                THEN [all |-> Append(acc.all, p), seen |-> acc.seen \cup {p.id}]
                ELSE [all |-> [k \in 1..Len(acc.all) |->
                                  IF acc.all[k].id = p.id THEN p ELSE acc.all[k]],
                      seen |-> acc.seen],
                Tail(ps))

\* the inner loop: append the papers whose id has not been seen
RECURSIVE MergePapers(_, _)
MergePapers(acc, ps) ==
    IF ps = <<>> THEN acc
    ELSE LET p == Head(ps)
         IN MergePapers(
                IF p.id \notin acc.seen
                THEN [all |-> Append(acc.all, p), seen |-> acc.seen \cup {p.id}]
                ELSE acc,
                Tail(ps))

\* (variant: without reverse=True)
InsertAsc(t, p) ==
    LET k == Cardinality({i \in 1..Len(t) : ~StrLess(p.id, t[i].id)})
    IN SubSeq(t, 1, k) \o <<p>> \o SubSeq(t, k + 1, Len(t))

\* where list.sort(key=id, reverse=True) puts p among the sorted t: behind
\* every element whose id is not smaller (the sort is stable)
InsertDesc(t, p) ==
    LET k == Cardinality({i \in 1..Len(t) : ~StrLess(t[i].id, p.id)})
    IN SubSeq(t, 1, k) \o <<p>> \o SubSeq(t, k + 1, Len(t))

\* (variant: the list is left in fetch order)
SortSkipped(s) == s

RECURSIVE SortByIdDesc(_)
SortByIdDesc(s) ==
    IF s = <<>> THEN <<>>
    ELSE InsertDesc(SortByIdDesc(SubSeq(s, 1, Len(s) - 1)), s[Len(s)])

\* --titles-only
Project(p) == [id |-> p.id, title |-> p.title, url |-> p.url]

\* datetime.now().strftime("%Y-%m-%d")
RunDate == <<"2025-01-08">>

\* lines 144-157: sort, project, wrap
MakeOutput(all, cats, t_only) ==
    LET sorted == SortByIdDesc(all)
        final == IF t_only THEN [k \in 1..Len(sorted) |-> Project(sorted[k])]
                 ELSE sorted
    IN [date |-> RunDate, categories |-> cats, count |-> Len(final),
        papers |-> final]

\* the outer loop from position i on
RECURSIVE FetchLoop(_, _, _, _)
FetchLoop(acc, cats, fds, i) ==
    IF i > Len(cats) THEN acc
    ELSE LET r == Fetched(fds[cats[i]], cats[i])
         IN IF r.raised THEN acc
            ELSE FetchLoop(MergePapers(acc, r.papers), cats, fds, i + 1)

\* the RecordSet of a whole run
MainOutput(cats, fds, t_only) ==
    MakeOutput(FetchLoop([all |-> <<>>, seen |-> {}], cats, fds, 1).all,
               cats, t_only)

---------------------------------------------------------------------------
(* json.dumps of a list of records whose values are strings                *)

\* a str as a JSON string: quotes, backslashes and control characters are
\* escaped, braces are not
JsonEscape(c) ==
    CASE c = "\"" -> "\\\""
      [] c = "\\" -> "\\\\"
      [] c = "\n" -> "\\n"
      [] c = "\t" -> "\\t"
      [] OTHER -> c

JsonStr(s) == <<"\"">> \o [k \in 1..Len(s) |-> JsonEscape(s[k])] \o <<"\"">>

\* the keys of a record in the order the dict was built (json.load keeps the
\* order of the file)
KeyOrder(p) ==
    IF "cat" \in DOMAIN p THEN <<"id", "title", "cat">>
    ELSE IF "category" \in DOMAIN p
         THEN <<"id", "title", "abstract", "authors", "category", "url", "pdf">>
         ELSE <<"id", "title", "url">>

\* parts joined by sep
RECURSIVE Join(_, _)
Join(parts, sep) ==
    IF parts = <<>> THEN <<>>
    ELSE IF Len(parts) = 1 THEN parts[1]
    ELSE parts[1] \o sep \o Join(Tail(parts), sep)

JsonMember(p, k) == <<"\"", k, "\"", ":", " ">> \o JsonStr(p[k])

\* one record; pretty is json.dumps(indent=2), otherwise indent=None
JsonObject(p, pretty) ==
    LET keys == KeyOrder(p)
        members == [i \in 1..Len(keys) |-> JsonMember(p, keys[i])]
    IN IF pretty
       THEN <<"{", "\n", "    ">> \o Join(members, <<",", "\n", "    ">>)
                \o <<"\n", "  ", "}">>
       ELSE <<"{">> \o Join(members, <<",", " ">>) \o <<"}">>

JsonDumps(ps, pretty) ==
    LET objects == [i \in 1..Len(ps) |-> JsonObject(ps[i], pretty)]
    IN IF ps = <<>> THEN <<"[", "]">>
       ELSE IF pretty
            THEN <<"[", "\n", "  ">> \o Join(objects, <<",", "\n", "  ">>)
                     \o <<"\n", "]">>
            ELSE <<"[">> \o Join(objects, <<",", " ">>) \o <<"]">>

---------------------------------------------------------------------------
(* prepare_prompt.py                                                       *)

TokInterests == <<"{", "INTERESTS", "}">>
TokTitlesJson == <<"{", "TITLES_JSON", "}">>
TokPapersJson == <<"{", "PAPERS_JSON", "}">>
TokDate == <<"{", "DATE", "}">>

\* (variant: {DATE} is replaced first)
RenderDateFirst(tpl, ints, jsonTok, json, date) ==
    Replace(Replace(Replace(tpl, TokDate, date), TokInterests, ints),
            jsonTok, json)

\* the three replace calls, in the order of the code
Render(tpl, ints, jsonTok, json, date) ==
    Replace(Replace(Replace(tpl, TokInterests, ints), jsonTok, json),
            TokDate, date)

\* p["id"], p["title"], p["category"] of every record of data["papers"]
TitleKeys == {"id", "title", "category"}

prepare_title_filter(data, ints, tpl) ==
    IF \E i \in 1..Len(data.papers) : ~(TitleKeys \subseteq DOMAIN data.papers[i])
    THEN [raised |-> "KeyError", prompt |-> <<>>]
    ELSE LET titles == [i \in 1..Len(data.papers) |->
                          [id |-> data.papers[i].id,
                           title |-> data.papers[i].title,
                           cat |-> data.papers[i].category]]
         IN [raised |-> "none",
             prompt |-> Render(tpl, ints, TokTitlesJson,
                               JsonDumps(titles, FALSE), data.date)]

\* A loaded --filter-ids document.  kind is the JSON type; items is the list
\* (kind "list"), tiers the object (kind "dict": a function from its keys to
\* lists of strings), text the string (kind "str").
ListDoc(items) == [kind |-> "list", items |-> items, tiers |-> <<>>, text |-> <<>>]
DictDoc(tiers) == [kind |-> "dict", items |-> <<>>, tiers |-> tiers, text |-> <<>>]
StrDoc(text) == [kind |-> "str", items |-> <<>>, tiers |-> <<>>, text |-> text]
AtomDoc(kind) == [kind |-> kind, items |-> <<>>, tiers |-> <<>>, text |-> <<>>]

NoFilter == AtomDoc("absent")

Range(f) == {f[x] : x \in DOMAIN f}

\* filter_data.get(key, [])
Get(tiers, key) == IF key \in DOMAIN tiers THEN tiers[key] ELSE <<>>

\* (variant: only "tier1" is read)
KeepIdsTier1(doc) ==
    CASE doc.kind = "dict" ->
            [raised |-> "none", ids |-> Range(Get(doc.tiers, "tier1"))]
      [] doc.kind = "list" -> [raised |-> "none", ids |-> Range(doc.items)]
      [] doc.kind = "str" ->
            [raised |-> "none", ids |-> {<<doc.text[k]>> : k \in 1..Len(doc.text)}]
      [] OTHER -> [raised |-> "TypeError", ids |-> {}]

\* lines 62-65: set() of a str is the set of its characters, set() of a
\* number, a boolean or None raises TypeError
KeepIds(doc) ==
    CASE doc.kind = "dict" ->
            [raised |-> "none",
             ids |-> Range(Get(doc.tiers, "tier1") \o Get(doc.tiers, "tier2"))]
      [] doc.kind = "list" -> [raised |-> "none", ids |-> Range(doc.items)]
      [] doc.kind = "str" ->
            [raised |-> "none", ids |-> {<<doc.text[k]>> : k \in 1..Len(doc.text)}]
      [] OTHER -> [raised |-> "TypeError", ids |-> {}]

\* (variant: an empty keep_ids does not filter)
FilterPapersUnlessEmpty(ps, keep_ids) ==
    LET Kept(p) == p.id \in keep_ids
    IN IF keep_ids = {} THEN ps ELSE SelectSeq(ps, Kept)

\* [p for p in papers if p["id"] in keep_ids]
FilterPapers(ps, keep_ids) ==
    LET Kept(p) == p.id \in keep_ids
    IN SelectSeq(ps, Kept)

\* doc = NoFilter stands for no --filter-ids argument
prepare_abstract_review(data, doc, ints, tpl) ==
    LET keep == IF doc = NoFilter THEN [raised |-> "none", ids |-> {}]
                ELSE KeepIds(doc)
        kept == IF doc = NoFilter THEN data.papers
                ELSE FilterPapers(data.papers, keep.ids)
    IN IF keep.raised # "none"
       THEN [raised |-> keep.raised, papers |-> data.papers, prompt |-> <<>>]
       ELSE [raised |-> "none", papers |-> kept,
             prompt |-> Render(tpl, ints, TokPapersJson,
                               JsonDumps(kept, TRUE), data.date)]

---------------------------------------------------------------------------
(* Initial values                                                          *)

NoOutput == [date |-> <<>>, categories |-> <<>>, count |-> 0, papers |-> <<>>]

DefaultTemplate ==
    <<"Date", ":", " ">> \o TokDate \o <<"\n">> \o TokInterests \o <<"\n">>
        \o TokTitlesJson \o TokPapersJson

DefaultInterests == <<"tensor networks">>

---------------------------------------------------------------------------
(* The pipeline: fetch_arxiv.main, then prepare_prompt.main                *)

Init ==
    /\ categories \in CatSeqs
    /\ titles_only \in BOOLEAN
    /\ feeds = [c \in CatNames |-> Unfetched]
    /\ idx = 1
    /\ all_papers = <<>>
    /\ seen_ids = {}
    /\ warnings = <<>>
    /\ output = NoOutput
    /\ pc = "fetching"
    /\ mode = "none"
    /\ filter_data = NoFilter
    /\ template = DefaultTemplate
    /\ interests = DefaultInterests
    /\ papers = <<>>
    /\ prompt = <<>>
    /\ error = "none"
    /\ xml_content = Feed(<<>>)
    /\ parse_out = [raised |-> FALSE, papers |-> <<>>]

\* one iteration of "for category in args.categories"; the network answers
\* with payload (the same one if the category is requested twice)
FetchCategory(payload) ==
    /\ pc = "fetching"
    /\ idx <= Len(categories)
    /\ feeds[categories[idx]] \in {Unfetched, payload}
    /\ LET category == categories[idx]
           r == Fetched(payload, category)
           acc == MergePapers([all |-> all_papers, seen |-> seen_ids], r.papers)
       IN IF r.raised
          THEN /\ pc' = "aborted"
               /\ UNCHANGED <<idx, all_papers, seen_ids, warnings>>
          ELSE /\ pc' = pc
               /\ idx' = idx + 1
               /\ all_papers' = acc.all
               /\ seen_ids' = acc.seen
               /\ warnings' = IF r.warned THEN Append(warnings, category)
                              ELSE warnings
    /\ feeds' = [feeds EXCEPT ![categories[idx]] = payload]
    /\ UNCHANGED <<categories, titles_only, output>>
    /\ UNCHANGED promptVars
    /\ UNCHANGED parseVars

\* after the loop: sort, project, wrap and write
WriteOutput ==
    /\ pc = "fetching"
    /\ idx > Len(categories)
    /\ output' = MakeOutput(all_papers, categories, titles_only)
    /\ all_papers' = output'.papers
    /\ pc' = "written"
    /\ UNCHANGED <<categories, titles_only, feeds, idx, seen_ids, warnings>>
    /\ UNCHANGED promptVars
    /\ UNCHANGED parseVars

\* prepare_prompt.py title-filter --data <output>
TitleFilter ==
    /\ pc = "written"
    /\ LET r == prepare_title_filter(output, interests, template)
       IN /\ mode' = "title-filter"
          /\ error' = r.raised
          /\ prompt' = r.prompt
          /\ pc' = IF r.raised = "none" THEN "rendered" ELSE "failed"
    /\ UNCHANGED <<filter_data, template, interests, papers, output>>
    /\ UNCHANGED fetchVars
    /\ UNCHANGED parseVars

\* prepare_prompt.py abstract-review --data <output> [--filter-ids <doc>]
AbstractReview(doc) ==
    /\ pc = "written"
    /\ LET r == prepare_abstract_review(output, doc, interests, template)
       IN /\ mode' = "abstract-review"
          /\ filter_data' = doc
          /\ error' = r.raised
          /\ papers' = r.papers
          /\ prompt' = r.prompt
          /\ pc' = IF r.raised = "none" THEN "rendered" ELSE "failed"
    /\ UNCHANGED <<template, interests, output>>
    /\ UNCHANGED fetchVars
    /\ UNCHANGED parseVars

Next ==
    \/ \E payload \in FeedPayloads : FetchCategory(payload)
    \/ WriteOutput
    \/ TitleFilter
    \/ AbstractReview(NoFilter)

Spec == Init /\ [][Next]_vars

\* fetch_arxiv.py alone
NextFetch ==
    \/ \E payload \in FeedPayloads : FetchCategory(payload)
    \/ WriteOutput

SpecFetch == Init /\ [][NextFetch]_vars

---------------------------------------------------------------------------
(* prepare_prompt.py on the RecordSet of a finished run                    *)

QuantPh == <<"quant-ph">>
CondMat == <<"cond-mat">>

\* an id no record has
IdZ == <<"7", ".", "7">>

\* a paper whose title holds placeholder tokens
TokenTitle == TokDate \o <<" ">> \o TokInterests

SampleFeeds ==
    [c \in CatNames |->
        IF c = QuantPh
        THEN Feed(<<Item(Elem(<<"A">>), Elem(AbsLink(IdA)), NoElem, NoElem),
                    Item(Elem(TokenTitle), Elem(AbsLink(IdB)), NoElem, NoElem)>>)
        ELSE Feed(<<Item(Elem(<<"C">>), Elem(PdfLink(IdC)), NoElem, NoElem),
                    Item(Elem(<<"A">>), Elem(AbsLink(IdA)), NoElem, NoElem)>>)]

\* the state in which fetch_arxiv.py leaves the RecordSet of such a run
Finished(cats, t_only) ==
    LET acc == FetchLoop([all |-> <<>>, seen |-> {}], cats, SampleFeeds, 1)
        out == MakeOutput(acc.all, cats, t_only)
    IN /\ categories = cats
       /\ titles_only = t_only
       /\ feeds = [c \in CatNames |->
                     IF \E k \in 1..Len(cats) : cats[k] = c THEN SampleFeeds[c]
                     ELSE Unfetched]
       /\ idx = Len(cats) + 1
       /\ all_papers = out.papers
       /\ seen_ids = acc.seen
       /\ warnings = <<>>
       /\ output = out
       /\ pc = "written"
       /\ xml_content = Feed(<<>>)
       /\ parse_out = [raised |-> FALSE, papers |-> <<>>]

Unrendered ==
    /\ mode = "none"
    /\ filter_data = NoFilter
    /\ papers = <<>>
    /\ prompt = <<>>
    /\ error = "none"

\* the --filter-ids documents
FilterIdPool == {IdA, IdB, IdZ}

TierKeys == {"tier1", "tier2", "tier3"}

TierLists == {<<>>, <<IdA>>, <<IdB>>, <<IdZ, IdB>>}

FilterDocs ==
    {ListDoc(x) : x \in SeqsUpTo(FilterIdPool, MaxFilterIds)}
        \cup {DictDoc(t) : t \in UNION {[K -> TierLists] : K \in SUBSET TierKeys}}
        \cup {StrDoc(IdA), StrDoc(IdZ)}
        \cup {AtomDoc("number"), AtomDoc("boolean"), AtomDoc("null")}

InitFilter ==
    /\ \E cats \in {<<QuantPh>>, <<QuantPh, CondMat>>, <<CondMat, QuantPh>>} :
          \E t_only \in BOOLEAN : Finished(cats, t_only)
    /\ template = DefaultTemplate
    /\ interests = DefaultInterests
    /\ Unrendered

NextFilter ==
    \/ TitleFilter
    \/ \E doc \in FilterDocs \cup {NoFilter} : AbstractReview(doc)

SpecFilter == InitFilter /\ [][NextFilter]_vars

\* the template and interests files
TemplatePieces ==
    {"{", "}", "INTERESTS", "TITLES_JSON", "PAPERS_JSON", "DATE", "text"}

Templates == SeqsUpTo(TemplatePieces, MaxTemplate)

InterestsPool ==
    {<<>>, <<"tensor networks">>, <<"papers of ">> \o TokDate,
     TokTitlesJson \o TokPapersJson}

InitRender ==
    /\ \E t_only \in BOOLEAN : Finished(<<QuantPh>>, t_only)
    /\ template \in Templates
    /\ interests \in InterestsPool
    /\ Unrendered

NextRender ==
    \/ TitleFilter
    \/ AbstractReview(NoFilter)

SpecRender == InitRender /\ [][NextRender]_vars

---------------------------------------------------------------------------
(* parse_rss called on one payload                                         *)

AnnotatedTitle ==
    <<"A", " ", "Title.", " ", "(arXiv:", "2501.00001v1", " ", "[quant-ph]", ")">>

MarkupTitle == <<" ", "&lt;", "b", "&gt;", "Spin", " ", "\n", "liquids", "<", "/b", ">">>

ListLink == <<"https://", "arxiv", ".", "org", "/", "list", "/", "quant-ph">>

NoDotLink == <<"https://", "arxiv", ".", "org", "/", "abs", "/", "2", "5">>

ParseTitles == {NoElem, Elem(<<>>), Elem(AnnotatedTitle), Elem(MarkupTitle)}

ParseLinks ==
    {NoElem, Elem(<<>>), Elem(AbsLink(IdA)), Elem(PdfLink(IdC)), Elem(ListLink),
     Elem(NoDotLink)}

\* items with and without description and dc:creator
ParseItemPool ==
    {Item(t, l, IF t.text = AnnotatedTitle THEN Elem(MarkupTitle) ELSE NoElem,
          IF l.text = AbsLink(IdA) THEN Elem(<<"A.", " ", "Author">>)
          ELSE IF l.text = ListLink THEN Elem(<<>>) ELSE NoElem) :
        t \in ParseTitles, l \in ParseLinks}

ParsePayloads == {Malformed} \cup {Feed(x) : x \in SeqsUpTo(ParseItemPool, MaxItems)}

InitParse ==
    /\ xml_content \in ParsePayloads
    /\ categories \in {<<c>> : c \in CatNames}
    /\ parse_out = [raised |-> FALSE, papers |-> <<>>]
    /\ pc = "parsing"
    /\ titles_only = FALSE
    /\ feeds = [c \in CatNames |-> Unfetched]
    /\ idx = 1
    /\ all_papers = <<>>
    /\ seen_ids = {}
    /\ warnings = <<>>
    /\ output = NoOutput
    /\ template = DefaultTemplate
    /\ interests = DefaultInterests
    /\ Unrendered

\* parse_rss(xml_content, category)
ParseRss ==
    /\ pc = "parsing"
    /\ parse_out' = parse_rss(xml_content, categories[1])
    /\ pc' = "parsed"
    /\ UNCHANGED <<xml_content, output>>
    /\ UNCHANGED fetchVars
    /\ UNCHANGED promptVars

NextParse == ParseRss

SpecParse == InitParse /\ [][NextParse]_vars

---------------------------------------------------------------------------
(* Properties of the aggregation (fetch_arxiv.main)                        *)

Written == pc \in {"written", "rendered", "failed"}

Failing(payload) == payload.net = "error" \/ ~payload.wellformed

\* the records the categories cats contribute, feed by feed, in feed order
RECURSIVE Concatenation(_, _)
Concatenation(cats, fds) ==
    IF cats = <<>> THEN <<>>
    ELSE Fetched(fds[Head(cats)], Head(cats)).papers
         \o Concatenation(Tail(cats), fds)

FirstIndex(s, id) ==
    CHOOSE k \in 1..Len(s) : s[k].id = id /\ \A j \in 1..(k - 1) : s[j].id # id

Shown(p) == IF titles_only THEN Project(p) ELSE p

Ids(s) == [k \in 1..Len(s) |-> s[k].id]

\* C1: the RecordSet holds no two records with the same id, it holds every
\* id of the input and no other, and the record kept for an id is its first
\* occurrence in concatenation order (so its category is the first requested
\* category whose feed held the id).
C1_FirstOccurrenceWins ==
    Written =>
        LET all == Concatenation(categories, feeds)
            out == output.papers
        IN /\ \A i, j \in 1..Len(out) : out[i].id = out[j].id => i = j
           /\ \A k \in 1..Len(all) : \E i \in 1..Len(out) : out[i].id = all[k].id
           /\ \A i \in 1..Len(out) :
                 /\ \E k \in 1..Len(all) : all[k].id = out[i].id
                 /\ out[i] = Shown(all[FirstIndex(all, out[i].id)])
           /\ output.count = Len(out)

\* a paper cross-listed in two requested categories, in full mode
C1_Witness ==
    /\ pc = "written"
    /\ ~titles_only
    /\ LET all == Concatenation(categories, feeds)
       IN \E k1, k2 \in 1..Len(all) :
             /\ k1 < k2
             /\ all[k1].id = all[k2].id
             /\ all[k1].category # all[k2].category
             /\ \E i \in 1..Len(output.papers) : output.papers[i] = all[k1]

\* a >= b for strings, character by character
RECURSIVE LexGeq(_, _)
LexGeq(a, b) ==
    IF b = <<>> THEN TRUE
    ELSE IF a = <<>> THEN FALSE
    ELSE IF Head(a) = Head(b) THEN LexGeq(Tail(a), Tail(b))
    ELSE Ord(Head(a)) > Ord(Head(b))

\* C2: in a RecordSet, full or titles-only, a record that precedes another
\* has an id that is lexicographically greater or equal.
C2_SortedDescending ==
    Written =>
        \A i, j \in 1..Len(output.papers) :
            i < j => LexGeq(output.papers[i].id, output.papers[j].id)

\* three records that were fetched in another order than they are written
C2_Witness ==
    /\ pc = "written"
    /\ Len(output.papers) >= 3
    /\ Ids(output.papers) # Ids(Concatenation(categories, feeds))
    /\ Ids(output.papers) = <<IdA, IdC, IdB>>

\* the feeds with every failing one replaced by an empty feed
Healed(fds) == [c \in DOMAIN fds |-> IF Failing(fds[c]) THEN Feed(<<>>) ELSE fds[c]]

FailedAmong(cats) == SelectSeq(cats, LAMBDA c : Failing(feeds[c]))

\* C3: whichever categories fail, the run never aborts, visits the categories
\* in order, contributes nothing for a failed one, and writes the RecordSet
\* it would write had the failed categories returned an empty feed.
C3_FailureIsEmptyFeed ==
    /\ pc # "aborted"
    /\ pc = "fetching" =>
          /\ idx \in 1..(Len(categories) + 1)
          /\ warnings = FailedAmong(SubSeq(categories, 1, idx - 1))
          /\ all_papers =
                FetchLoop([all |-> <<>>, seen |-> {}],
                          SubSeq(categories, 1, idx - 1), Healed(feeds), 1).all
    /\ Written =>
          /\ idx = Len(categories) + 1
          /\ warnings = FailedAmong(categories)
          /\ output = MainOutput(categories, Healed(feeds), titles_only)

\* a failed category followed by one that contributes records
C3_Witness ==
    /\ pc = "written"
    /\ Len(categories) >= 2
    /\ Failing(feeds[categories[1]])
    /\ ~Failing(feeds[categories[2]])
    /\ Len(warnings) = 1
    /\ output.count >= 1

Reorderings(cats) ==
    {[k \in 1..Len(cats) |-> cats[f[k]]] : f \in Permutations(1..Len(cats))}

\* C10: requesting the same categories in another order gives a RecordSet
\* with the same count and the same sequence of ids.
C10_OrderIndependent ==
    Written =>
        \A cats \in Reorderings(categories) :
            LET other == MainOutput(cats, feeds, titles_only)
            IN /\ other.count = output.count
               /\ Ids(other.papers) = Ids(output.papers)

\* a reordering that changes the order in which the records are fetched
C10_Witness ==
    /\ pc = "written"
    /\ output.count >= 2
    /\ \E cats \in Reorderings(categories) :
          Ids(Concatenation(cats, feeds)) # Ids(Concatenation(categories, feeds))

---------------------------------------------------------------------------
(* Properties of parse_rss                                                 *)

\* an item with a title element, a link element and a link that holds an id
Complete(item) ==
    /\ item.title.present
    /\ item.link.present
    /\ \E i \in 1..Len(item.link.text) : MatchAt(item.link.text, i)

\* C6: parsing a well-formed feed does not fail and returns, in feed order,
\* exactly one record for every item that has a title element, a link
\* element and an id in its link: N items of which K lack one of these give
\* N - K records.
C6_OneRecordPerCompleteItem ==
    (pc = "parsed" /\ xml_content.wellformed) =>
        LET items == xml_content.items
            good == {i \in 1..Len(items) : Complete(items[i])}
            out == parse_out.papers
        IN /\ ~parse_out.raised
           /\ Len(out) = Len(items) - Cardinality((1..Len(items)) \ good)
           /\ \A i \in good :
                 LET r == out[Cardinality({j \in good : j <= i})]
                 IN /\ r = ItemRecord(items[i], categories[1])
                    /\ r.id # <<>>
                    /\ r.category = categories[1]

\* an item without title element, then a complete one
C6_Witness ==
    /\ pc = "parsed"
    /\ xml_content.wellformed
    /\ Len(xml_content.items) >= 2
    /\ ~xml_content.items[1].title.present
    /\ Complete(xml_content.items[2])
    /\ Len(parse_out.papers) = Len(xml_content.items) - 1
    /\ parse_out.papers[1].id = extract_arxiv_id(xml_content.items[2].link.text)

---------------------------------------------------------------------------
(* Properties of the filter of prepare_abstract_review                     *)

Reviewed == pc \in {"rendered", "failed"} /\ mode = "abstract-review"

\* res holds exactly the records of src whose id is in ids, in the order
\* of src
IsSelection(res, src, ids) ==
    LET sel == {i \in 1..Len(src) : src[i].id \in ids}
    IN /\ Len(res) = Cardinality(sel)
       /\ \A i \in sel : res[Cardinality({j \in sel : j <= i})] = src[i]

\* C4: with a flat list of identifiers the filter does not fail and keeps
\* exactly the records whose id is in the list, unchanged and in their
\* order; an empty list keeps none, an identifier of no record has no effect.
C4_FlatListFilter ==
    (Reviewed /\ filter_data.kind = "list") =>
        /\ pc = "rendered"
        /\ error = "none"
        /\ IsSelection(papers, output.papers, Range(filter_data.items))
        /\ filter_data.items = <<>> => papers = <<>>

\* a list that names a record and an id of no record, and drops a record
C4_Witness ==
    /\ Reviewed
    /\ filter_data.kind = "list"
    /\ IdZ \in Range(filter_data.items)
    /\ Len(papers) >= 1
    /\ Len(papers) < Len(output.papers)

AllTierIds(tiers) == UNION {Range(tiers[k]) : k \in DOMAIN tiers}

\* C5 as stated: a tier-keyed document filters like the flat set that is
\* the union of the lists of all its keys.
C5_UnionOfAllTierKeys ==
    (Reviewed /\ filter_data.kind = "dict") =>
        /\ pc = "rendered"
        /\ IsSelection(papers, output.papers, AllTierIds(filter_data.tiers))

Tier12Ids(tiers) ==
    (IF "tier1" \in DOMAIN tiers THEN Range(tiers["tier1"]) ELSE {})
        \cup (IF "tier2" \in DOMAIN tiers THEN Range(tiers["tier2"]) ELSE {})

\* C5 as amended: an object-shaped document filters like the flat set that
\* is the union of the lists under "tier1" and "tier2" (a missing key counts
\* as an empty list); the lists under any other key are ignored.
C5_UnionOfTier1Tier2 ==
    (Reviewed /\ filter_data.kind = "dict") =>
        /\ pc = "rendered"
        /\ error = "none"
        /\ IsSelection(papers, output.papers, Tier12Ids(filter_data.tiers))

\* a document whose "tier3" names a record that "tier1" and "tier2" do not
C5_Witness ==
    /\ Reviewed
    /\ filter_data.kind = "dict"
    /\ DOMAIN filter_data.tiers = TierKeys
    /\ Len(papers) >= 1
    /\ \E i \in 1..Len(output.papers) :
          /\ output.papers[i].id \in Range(filter_data.tiers["tier3"])
          /\ output.papers[i].id \notin Tier12Ids(filter_data.tiers)

\* C8 as stated: a filter document that is neither a list nor an object ends
\* the run in an error and no prompt is printed.
C8_OtherShapesRejected ==
    (Reviewed /\ filter_data.kind \notin {"absent", "list", "dict"}) =>
        /\ pc = "failed"
        /\ error # "none"
        /\ prompt = <<>>

---------------------------------------------------------------------------
(* Properties of the rendering                                             *)

\* C9 as stated: the title-filter profile reads a titles-only RecordSet
\* without error.
C9_TitlesOnlyReadable ==
    (mode = "title-filter" /\ titles_only /\ pc \in {"rendered", "failed"}) =>
        /\ pc = "rendered"
        /\ error = "none"

\* the token of the JSON value and the JSON value of the profile that ran
JsonToken == IF mode = "title-filter" THEN TokTitlesJson ELSE TokPapersJson

JsonValue ==
    IF mode = "title-filter"
    THEN JsonDumps([i \in 1..Len(output.papers) |->
                       [id |-> output.papers[i].id,
                        title |-> output.papers[i].title,
                        cat |-> output.papers[i].category]], FALSE)
    ELSE JsonDumps(papers, TRUE)

\* the template with the tokens found in it replaced by their values in one
\* scan from left to right; the values are not scanned
RECURSIVE Substituted(_, _)
Substituted(tpl, i) ==
    IF i > Len(tpl) THEN <<>>
    ELSE IF OccursAt(tpl, TokInterests, i)
         THEN interests \o Substituted(tpl, i + Len(TokInterests))
    ELSE IF OccursAt(tpl, JsonToken, i)
         THEN JsonValue \o Substituted(tpl, i + Len(JsonToken))
    ELSE IF OccursAt(tpl, TokDate, i)
         THEN output.date \o Substituted(tpl, i + Len(TokDate))
    ELSE <<tpl[i]>> \o Substituted(tpl, i + 1)

Taken(s, old) ==
    LET occ == {j \in 1..Len(s) : OccursAt(s, old, j)}
    IN CHOOSE S \in SUBSET occ :
          \A j \in occ :
              j \in S <=> ~\E k \in S : k < j /\ j < k + Len(old)

RECURSIVE Flatten(_, _, _)
Flatten(parts, lo, hi) ==
    IF lo > hi THEN <<>>
    ELSE IF lo = hi THEN parts[lo]
    ELSE LET mid == (lo + hi) \div 2
         IN Flatten(parts, lo, mid) \o Flatten(parts, mid + 1, hi)

\* one replace-all pass, position by position
Pass(s, old, new) ==
    LET T == Taken(s, old)
        parts == [k \in 1..Len(s) |->
                    IF k \in T THEN new
                    ELSE IF \E j \in T : j < k /\ k < j + Len(old) THEN <<>>
                    ELSE <<s[k]>>]
    IN Flatten(parts, 1, Len(s))

====
